---- MODULE Spec2Model ----
(***************************************************************************)
(* Token issuance, verification and rate limiting of reavpages-backend:    *)
(* TokenService (src/src/services/token.service.ts) over the Token         *)
(* collection (src/src/models/token.model.ts).                             *)
(*                                                                         *)
(* token.service.ts holds two variants of the service. The model follows   *)
(* the later one (lines 485-932), whose generateOTP({userId, type}) is the *)
(* one AuthService calls; the earlier one (canGenerateOtp, lines 351-464)  *)
(* looks records up by type "otp", which no record has.                    *)
(*                                                                         *)
(* Time is counted in ticks of 60/UnitsPerMinute seconds, so that the      *)
(* truncation of moment's minute difference is part of the model.          *)
(* Spec runs every one-time-code call to completion; SpecConc interleaves  *)
(* two calls at their store calls; SpecSession runs the session-token      *)
(* calls (generateAuthTokens, verifyToken for jwt, deleteToken,            *)
(* updateToken) to completion.                                             *)
(***************************************************************************)
EXTENDS Integers, Sequences, FiniteSets, TLC

(* ---------------- bounds of the model ---------------- *)
UnitsPerMinute == 2
MaxTime == 16
ConcMaxTime == 5
SessionMaxTime == 1
PairMaxTime == 2
AuthMaxTime == 2
ResetMaxTime == 5
AuthMaxSessions == 2
MaxSessions == 2
(* the unix time, in seconds, of the first instant of a run; the clock of  *)
(* a running system is far from the epoch, which is all the model uses     *)
StartUnix == 100000

(* ---------------- configuration: the fields of config.token ------------ *)
(* Supplied by the environment (TOKEN_OTP_ variables); the model fixes a   *)
(* small                                                                   *)
(* configuration with window > 2 * maxRequests * cooldown so that every    *)
(* branch of the rate limiter is reachable.                                *)
otpExpirationMinutes == 2
otpMaxRequests == 2
otpRequestsWindow == 5
otpCooldownTime == 1
otpExtendedCooldownTime == 2
accessExpirationMinutes == 1
refreshExpirationDays == 1

(* ---------------- inputs ---------------- *)
Users == {"u1"}
UserIds == {"u1", "ghost"}
OtpTypes == {"resetPassword", "twoFa"}
(* a token string is modelled as a sequence of its parts: a one-time code   *)
(* is the one-part sequence of its digits                                   *)
Codes == {<<"111111">>, <<"222222">>}
NoDoc == [_id |-> 0]
Procs == {1, 2}
ConcTypes == {"resetPassword"}

(* tokenSchema.type enum *)
TypeEnum == {"access", "refresh", "resetPassword", "verifyEmail"}

(* now: the clock; tokens: the Token collection in natural order; reply:    *)
(* the outcome of the latest call; issuedAt: history, the instant of the    *)
(* latest successful generateOTP per (userId, type), -1 when there is none  *)
(* calls: the calls in flight when requests interleave, one per request    *)
(* slot: where the call stands, its arguments, the document its findOne    *)
(* returned and its outcome                                                *)
(* issued: history, the session tokens handed to callers so far           *)
(* users: the User collection in natural order                             *)
VARIABLES now, tokens, reply, issuedAt, calls, issued, users
vars == <<now, tokens, reply, issuedAt, calls, issued, users>>

(* ---------------- pure helpers ---------------- *)
(* moment(a).diff(b, "minutes"): truncated whole minutes *)
DiffMinutes(a, b) == (a - b) \div UnitsPerMinute
(* moment().add(m, "minutes") *)
AddMinutes(t, m) == t + m * UnitsPerMinute

(* bcrypt.hash / bcrypt.compare: the stored value is not the plaintext *)
BcryptHash(s) == <<"bcrypt">> \o s
BcryptCompare(s, hash) == hash = BcryptHash(s)

ApiError(op, userId, type, status, message) ==
    [op |-> op, userId |-> userId, type |-> type, status |-> status,
     message |-> message, value |-> <<>>]
Ok(op, userId, type, value) ==
    [op |-> op, userId |-> userId, type |-> type, status |-> "OK",
     message |-> "", value |-> value]

(* ---------------- the Token collection ---------------- *)
(* an ObjectId is never handed out twice: a new one differs from every     *)
(* stored one and from every one a call in flight still holds              *)
Ids(store) == {store[i]._id : i \in 1..Len(store)}
HeldIds == {calls[p].doc._id : p \in Procs}
NewId(store) ==
    CHOOSE i \in 1..(Len(store) + Cardinality(Procs) + 1) :
        /\ i \notin Ids(store) \cup HeldIds
        /\ \A j \in 1..(Len(store) + Cardinality(Procs) + 1) :
              j \notin Ids(store) \cup HeldIds => i <= j

(* mutant: the lookup does not filter on type *)
Matching_IgnoresType(store, userId, type, tokenType) ==
    {i \in 1..Len(store) : /\ store[i].userId = userId
                           /\ store[i].tokenType = tokenType}

Matching(store, userId, type, tokenType) ==
    {i \in 1..Len(store) : /\ store[i].userId = userId
                           /\ store[i].type = type
                           /\ store[i].tokenType = tokenType}

(* Token.findOne({userId, type, tokenType}): first match in natural order *)
FindOne(store, userId, type, tokenType) ==
    LET m == Matching(store, userId, type, tokenType)
    IN  IF m = {} THEN NoDoc
        ELSE store[CHOOSE i \in m : \A j \in m : i <= j]

FindById(store, id) ==
    LET m == {i \in 1..Len(store) : store[i]._id = id}
    IN  IF m = {} THEN NoDoc ELSE store[CHOOSE i \in m : TRUE]

(* mutant: the update path without the hashing hook *)
PreFindOneAndUpdate_NoHash(update) == update

(* pre("findOneAndUpdate"): hash update.token when present *)
PreFindOneAndUpdate(update) ==
    IF "token" \in DOMAIN update
    THEN [f \in DOMAIN update |->
             IF f = "token" THEN BcryptHash(update.token) ELSE update[f]]
    ELSE update

ApplyUpdate(doc, update, clock) ==
    [f \in DOMAIN doc |->
        IF f \in DOMAIN update THEN update[f]
        ELSE IF f = "updatedAt" THEN clock
        ELSE doc[f]]

(* Token.findByIdAndUpdate(id, update, {new: true}); timestamps: true *)
FindByIdAndUpdate(store, id, update, clock) ==
    [i \in 1..Len(store) |->
        IF store[i]._id = id
        THEN ApplyUpdate(store[i], PreFindOneAndUpdate(update), clock)
        ELSE store[i]]

(* Token.findByIdAndDelete(id) *)
FindByIdAndDelete(store, id) ==
    SelectSeq(store, LAMBDA d : d._id # id)

(* schema validation run by save() *)
Validates(tokenData) == tokenData.type \in TypeEnum

(* mutant: save() without the hashing hook *)
Save_NoHash(store, tokenData, clock) ==
    Append(store,
           [_id |-> NewId(store),
            token |-> tokenData.token,
            userId |-> tokenData.userId,
            type |-> tokenData.type,
            tokenType |-> tokenData.tokenType,
            expires |-> tokenData.expires,
            blacklisted |-> tokenData.blacklisted,
            otpRequestCount |-> tokenData.otpRequestCount,
            otpCooldownPeriod |-> tokenData.otpCooldownPeriod,
            createdAt |-> clock,
            updatedAt |-> clock])

(* new Token(tokenData).save(): pre("save") hashes the token *)
Save(store, tokenData, clock) ==
    Append(store,
           [_id |-> NewId(store),
            token |-> BcryptHash(tokenData.token),
            userId |-> tokenData.userId,
            type |-> tokenData.type,
            tokenType |-> tokenData.tokenType,
            expires |-> tokenData.expires,
            blacklisted |-> tokenData.blacklisted,
            otpRequestCount |-> tokenData.otpRequestCount,
            otpCooldownPeriod |-> tokenData.otpCooldownPeriod,
            createdAt |-> clock,
            updatedAt |-> clock])

(* ---------------- TokenService.generateOTP ---------------- *)
NoId == ""

(* mutant: the request budget is one too large *)
RateLimit_MaxOffByOne(existing, clock) ==
    LET timeSinceCreation == DiffMinutes(clock, existing.createdAt)
        timeSinceLastUpdate == DiffMinutes(clock, existing.updatedAt)
    IN  IF existing = NoDoc THEN "none"
        ELSE IF timeSinceLastUpdate <= existing.otpCooldownPeriod THEN "cooldown"
        ELSE IF existing.otpRequestCount > otpMaxRequests
             THEN IF timeSinceCreation >= otpRequestsWindow
                  THEN "extend" ELSE "max"
        ELSE IF timeSinceCreation >= otpExtendedCooldownTime + otpRequestsWindow
             THEN "delete"
        ELSE "pass"

(* mutant: the cooldown comparison turned around *)
RateLimit_CooldownInverted(existing, clock) ==
    LET timeSinceCreation == DiffMinutes(clock, existing.createdAt)
        timeSinceLastUpdate == DiffMinutes(clock, existing.updatedAt)
    IN  IF existing = NoDoc THEN "none"
        ELSE IF timeSinceLastUpdate > existing.otpCooldownPeriod THEN "cooldown"
        ELSE IF existing.otpRequestCount >= otpMaxRequests
             THEN IF timeSinceCreation >= otpRequestsWindow
                  THEN "extend" ELSE "max"
        ELSE IF timeSinceCreation >= otpExtendedCooldownTime + otpRequestsWindow
             THEN "delete"
        ELSE "pass"

(* the rate-limit block of generateOTP, decided on the document read by     *)
(* findOne and on the clock read by moment()                                *)
RateLimit(existing, clock) ==
    LET timeSinceCreation == DiffMinutes(clock, existing.createdAt)
        timeSinceLastUpdate == DiffMinutes(clock, existing.updatedAt)
    IN  IF existing = NoDoc THEN "none"
        ELSE IF timeSinceLastUpdate <= existing.otpCooldownPeriod THEN "cooldown"
        ELSE IF existing.otpRequestCount >= otpMaxRequests
             THEN IF timeSinceCreation >= otpRequestsWindow
                  THEN "extend" ELSE "max"
        ELSE IF timeSinceCreation >= otpExtendedCooldownTime + otpRequestsWindow
             THEN "delete"
        ELSE "pass"

TooManyRequests(userId, type) ==
    ApiError("generateOTP", userId, type, "TOO_MANY_REQUESTS",
             "Too many OTP requests. Please try again later.")

OtpUpdate(existing, otpToken, clock) ==
    [token |-> otpToken,
     expires |-> AddMinutes(clock, otpExpirationMinutes),
     otpRequestCount |-> existing.otpRequestCount + 1,
     otpCooldownPeriod |-> otpCooldownTime]

OtpData(userId, type, otpToken, clock) ==
    [token |-> otpToken, userId |-> userId, tokenType |-> "otp", type |-> type,
     expires |-> AddMinutes(clock, otpExpirationMinutes), blacklisted |-> FALSE,
     otpCooldownPeriod |-> otpCooldownTime, otpRequestCount |-> 1]

(* TokenService.updateToken: NOT_FOUND when findByIdAndUpdate returns null *)
UpdateToken(store, id, update, clock, op, userId, type, okReply) ==
    IF FindById(store, id) = NoDoc
    THEN [tokens |-> store,
          reply |-> ApiError(op, userId, type, "NOT_FOUND",
                             "No token found with this ID")]
    ELSE [tokens |-> FindByIdAndUpdate(store, id, update, clock),
          reply |-> okReply]

(* TokenService.createToken: any failure of save() becomes a 500 *)
CreateToken(store, tokenData, clock, op, okReply) ==
    IF Validates(tokenData)
    THEN [tokens |-> Save(store, tokenData, clock), reply |-> okReply]
    ELSE [tokens |-> store,
          reply |-> ApiError(op, tokenData.userId, tokenData.type,
                             "INTERNAL_SERVER_ERROR",
                             "An unexpected error occurred")]

(* lines 889-921: generate the code, then update the record read earlier or *)
(* create one                                                               *)
OtpWrite(store, existing, userId, type, otpToken, clock) ==
    IF existing # NoDoc
    THEN UpdateToken(store, existing._id, OtpUpdate(existing, otpToken, clock),
                     clock, "generateOTP", userId, type,
                     Ok("generateOTP", userId, type, otpToken))
    ELSE CreateToken(store, OtpData(userId, type, otpToken, clock), clock,
                     "generateOTP", Ok("generateOTP", userId, type, otpToken))

(* mutant: the escalation also starts the request count afresh *)
OtpLimitStep_ResetsCount(store, existing, userId, type, otpToken, clock) ==
    LET d == RateLimit(existing, clock)
    IN  CASE d = "cooldown" ->
               [tokens |-> store, reply |-> TooManyRequests(userId, type)]
          [] d = "max" ->
               [tokens |-> store, reply |-> TooManyRequests(userId, type)]
          [] d = "extend" ->
               UpdateToken(store, existing._id,
                           [otpCooldownPeriod |-> otpExtendedCooldownTime,
                            otpRequestCount |-> 0],
                           clock, "generateOTP", userId, type,
                           TooManyRequests(userId, type))
          [] d = "delete" ->
               IF FindById(store, existing._id) = NoDoc
               THEN [tokens |-> store,
                     reply |-> ApiError("generateOTP", userId, type, "NOT_FOUND",
                                        "Token not found or already deleted")]
               ELSE OtpWrite(FindByIdAndDelete(store, existing._id), existing,
                             userId, type, otpToken, clock)
          [] OTHER ->
               OtpWrite(store, existing, userId, type, otpToken, clock)

(* lines 845-887 after findOne returned `existing`, up to and including the *)
(* first store call that follows                                            *)
OtpLimitStep(store, existing, userId, type, otpToken, clock) ==
    LET d == RateLimit(existing, clock)
    IN  CASE d = "cooldown" ->
               [tokens |-> store, reply |-> TooManyRequests(userId, type)]
          [] d = "max" ->
               [tokens |-> store, reply |-> TooManyRequests(userId, type)]
          [] d = "extend" ->
               UpdateToken(store, existing._id,
                           [otpCooldownPeriod |-> otpExtendedCooldownTime],
                           clock, "generateOTP", userId, type,
                           TooManyRequests(userId, type))
          [] d = "delete" ->
               IF FindById(store, existing._id) = NoDoc
               THEN [tokens |-> store,
                     reply |-> ApiError("generateOTP", userId, type, "NOT_FOUND",
                                        "Token not found or already deleted")]
               ELSE OtpWrite(FindByIdAndDelete(store, existing._id), existing,
                             userId, type, otpToken, clock)
          [] OTHER ->
               OtpWrite(store, existing, userId, type, otpToken, clock)

(* the whole of generateOTP({userId, type}) run without interleaving *)
generateOTP(store, userId, type, otpToken, clock) ==
    IF userId = NoId
    THEN [tokens |-> store,
          reply |-> ApiError("generateOTP", userId, type, "BAD_REQUEST",
                             "Token data not provided")]
    ELSE IF userId \notin Users
    THEN [tokens |-> store,
          reply |-> ApiError("generateOTP", userId, type, "NOT_FOUND",
                             "No user found with this ID")]
    ELSE OtpLimitStep(store, FindOne(store, userId, type, "otp"),
                      userId, type, otpToken, clock)

(* ---------------- TokenService.verifyToken, otp branch ---------------- *)
OtpExpired(tokenDoc, clock) ==
    tokenDoc.updatedAt < clock - otpExpirationMinutes * UnitsPerMinute

(* mutant: the record is consumed before the presented code is compared *)
OtpConsumeStep_DeleteFirst(store, tokenDoc, token, type, id, clock) ==
    IF OtpExpired(tokenDoc, clock)
    THEN [tokens |-> store,
          reply |-> ApiError("verifyToken", id, type, "UNAUTHORIZED",
                             "Token has expired")]
    ELSE IF ~BcryptCompare(token, tokenDoc.token)
    THEN [tokens |-> FindByIdAndDelete(store, tokenDoc._id),
          reply |-> ApiError("verifyToken", id, type, "UNAUTHORIZED",
                             "Invalid or expired OTP token")]
    ELSE IF FindById(store, tokenDoc._id) = NoDoc
    THEN [tokens |-> store,
          reply |-> ApiError("verifyToken", id, type, "NOT_FOUND",
                             "Token not found or already deleted")]
    ELSE [tokens |-> FindByIdAndDelete(store, tokenDoc._id),
          reply |-> Ok("verifyToken", id, type, token)]

(* mutant: the result of findByIdAndDelete is not looked at *)
OtpConsumeStep_NoResultCheck(store, tokenDoc, token, type, id, clock) ==
    IF OtpExpired(tokenDoc, clock)
    THEN [tokens |-> store,
          reply |-> ApiError("verifyToken", id, type, "UNAUTHORIZED",
                             "Token has expired")]
    ELSE IF ~BcryptCompare(token, tokenDoc.token)
    THEN [tokens |-> store,
          reply |-> ApiError("verifyToken", id, type, "UNAUTHORIZED",
                             "Invalid or expired OTP token")]
    ELSE [tokens |-> FindByIdAndDelete(store, tokenDoc._id),
          reply |-> Ok("verifyToken", id, type, token)]

(* lines 712-734 on the document read by findOne *)
OtpConsumeStep(store, tokenDoc, token, type, id, clock) ==
    IF OtpExpired(tokenDoc, clock)
    THEN [tokens |-> store,
          reply |-> ApiError("verifyToken", id, type, "UNAUTHORIZED",
                             "Token has expired")]
    ELSE IF ~BcryptCompare(token, tokenDoc.token)
    THEN [tokens |-> store,
          reply |-> ApiError("verifyToken", id, type, "UNAUTHORIZED",
                             "Invalid or expired OTP token")]
    ELSE IF FindById(store, tokenDoc._id) = NoDoc
    THEN [tokens |-> store,
          reply |-> ApiError("verifyToken", id, type, "NOT_FOUND",
                             "Token not found or already deleted")]
    ELSE [tokens |-> FindByIdAndDelete(store, tokenDoc._id),
          reply |-> Ok("verifyToken", id, type, token)]

(* the whole of verifyToken(token, type, "otp", id) run without interleaving *)
verifyOtp(store, token, type, id, clock) ==
    IF id = NoId
    THEN [tokens |-> store,
          reply |-> ApiError("verifyToken", id, type, "BAD_REQUEST",
                             "User ID is not provided")]
    ELSE IF FindOne(store, id, type, "otp") = NoDoc
    THEN [tokens |-> store,
          reply |-> ApiError("verifyToken", id, type, "NOT_FOUND",
                             "Token not found, kindly generate a valid token")]
    ELSE OtpConsumeStep(store, FindOne(store, id, type, "otp"),
                        token, type, id, clock)

(* ---------------- session tokens: pure parts ---------------- *)
(* Date.getTime() / 1000 and moment().unix(): whole seconds since the epoch *)
Unix(t) == StartUnix + t * (60 \div UnitsPerMinute)
(* Date.now(), the instant moment() stands for: milliseconds *)
Millis(t) == Unix(t) * 1000
(* moment().add(d, "days") *)
AddDays(t, d) == t + d * 24 * 60 * UnitsPerMinute

(* config.token.secret *)
TokenSecret == "secret"

(* generateToken, tokenType "jwt": jwt.sign(payload, secret). The parts of *)
(* the token are the header, then sub, iat, exp and type of the payload,   *)
(* then the key its signature was made with. HS256 is deterministic.       *)
generateToken(userId, expires, type, clock) ==
    <<"jwt", userId, Unix(clock), Unix(expires), type, TokenSecret>>

(* a token whose signature does not match its payload under the secret     *)
Tamper(token) == [token EXCEPT ![6] = "forged"]

JwtPayload(token) == SubSeq(token, 2, 5)

(* jwt.verify(token, secret): checks the signature, then exp against the   *)
(* clock in seconds (clockTimestamp >= payload.exp is expired)             *)
JwtVerify(token, clock) ==
    IF token[6] # TokenSecret THEN "JsonWebTokenError"
    ELSE IF Unix(clock) >= token[4] THEN "TokenExpiredError"
    ELSE "ok"

(* mutant: the number is taken for what it is, seconds *)
MomentIsAfter_Seconds(clock, n) == Unix(clock) > n

(* moment().isAfter(n) for a number n: moment reads n as milliseconds      *)
MomentIsAfter(clock, n) == Millis(clock) > n

InternalError(op, userId, type) ==
    ApiError(op, userId, type, "INTERNAL_SERVER_ERROR",
             "An unexpected error occurred")

(* ---------------- TokenService.verifyToken, jwt branch ---------------- *)
(* lines 680-694: the extra validation of a refresh token. storeCalls      *)
(* counts the calls made to the collection.                                *)
RefreshCheck(store, token, type, id, clock) ==
    LET tokenDoc == FindOne(store, id, type, "jwt")
    IN  IF tokenDoc = NoDoc
        THEN [tokens |-> store, storeCalls |-> 1,
              reply |-> ApiError("verifyToken", id, type, "NOT_FOUND",
                                 "Token not found, kindly generate a valid token")]
        ELSE IF MomentIsAfter(clock, Unix(tokenDoc.expires))
        THEN [tokens |-> FindByIdAndDelete(store, tokenDoc._id),
              storeCalls |-> 2,
              reply |-> ApiError("verifyToken", id, type, "UNAUTHORIZED",
                                 "Expired token")]
        ELSE IF ~BcryptCompare(token, tokenDoc.token)
        THEN [tokens |-> store, storeCalls |-> 1,
              reply |-> ApiError("verifyToken", id, type, "UNAUTHORIZED",
                                 "Invalid token")]
        ELSE [tokens |-> store, storeCalls |-> 1,
              reply |-> Ok("verifyToken", id, type, JwtPayload(token))]

(* verifyToken(token, type, "jwt", id): an error of jwt.verify is no       *)
(* ApiError, so the catch turns it into a 500                              *)
verifyJwt(store, token, type, id, clock) ==
    IF JwtVerify(token, clock) # "ok"
    THEN [tokens |-> store, storeCalls |-> 0,
          reply |-> InternalError("verifyToken", id, type)]
    ELSE IF token[4] # 0 /\ MomentIsAfter(clock, token[4])
    THEN [tokens |-> store, storeCalls |-> 0,
          reply |-> ApiError("verifyToken", id, type, "UNAUTHORIZED",
                             "Expired token")]
    ELSE IF type # "refresh"
    THEN [tokens |-> store, storeCalls |-> 0,
          reply |-> Ok("verifyToken", id, type, JwtPayload(token))]
    ELSE IF id = NoId
    THEN [tokens |-> store, storeCalls |-> 0,
          reply |-> ApiError("verifyToken", id, type, "BAD_REQUEST",
                             "User ID is not provided")]
    ELSE RefreshCheck(store, token, type, id, clock)

(* ---------------- TokenService.generateAuthTokens ---------------- *)
(* the tokenData of the refresh record; the one-time-code counters are not *)
(* set on it (0 stands for absent)                                         *)
RefreshData(userId, refreshToken, refreshTokenExpires) ==
    [token |-> refreshToken, userId |-> userId,
     expires |-> refreshTokenExpires, type |-> "refresh",
     blacklisted |-> FALSE, tokenType |-> "jwt",
     otpRequestCount |-> 0, otpCooldownPeriod |-> 0]

(* createToken when save() may be refused by the store: `up` tells whether *)
(* the store takes the write                                               *)
CreateTokenOrFail(store, tokenData, clock, op, okReply, up) ==
    IF up THEN CreateToken(store, tokenData, clock, op, okReply)
    ELSE [tokens |-> store,
          reply |-> InternalError(op, tokenData.userId, tokenData.type)]

AccessToken(userId, clock) ==
    generateToken(userId, AddMinutes(clock, accessExpirationMinutes),
                  "access", clock)
RefreshToken(userId, clock) ==
    generateToken(userId, AddDays(clock, refreshExpirationDays),
                  "refresh", clock)

(* mutant: the access token is persisted as well *)
generateAuthTokens_StoresAccess(store, userId, up, clock) ==
    IF userId = NoId
    THEN [tokens |-> store,
          reply |-> ApiError("generateAuthTokens", userId, "refresh",
                             "BAD_REQUEST", "User ID not provided")]
    ELSE CreateTokenOrFail(
             Save(store,
                  [RefreshData(userId, AccessToken(userId, clock),
                               AddMinutes(clock, accessExpirationMinutes))
                     EXCEPT !.type = "access"], clock),
             RefreshData(userId, RefreshToken(userId, clock),
                         AddDays(clock, refreshExpirationDays)),
             clock, "generateAuthTokens",
             Ok("generateAuthTokens", userId, "refresh",
                <<AccessToken(userId, clock), RefreshToken(userId, clock)>>),
             up)

(* mutant: a failed save is not noticed *)
generateAuthTokens_IgnoresFailure(store, userId, up, clock) ==
    IF userId = NoId
    THEN [tokens |-> store,
          reply |-> ApiError("generateAuthTokens", userId, "refresh",
                             "BAD_REQUEST", "User ID not provided")]
    ELSE [tokens |-> CreateTokenOrFail(
                         store,
                         RefreshData(userId, RefreshToken(userId, clock),
                                     AddDays(clock, refreshExpirationDays)),
                         clock, "generateAuthTokens", NoDoc, up).tokens,
          reply |-> Ok("generateAuthTokens", userId, "refresh",
                       <<AccessToken(userId, clock),
                         RefreshToken(userId, clock)>>)]

(* generateAuthTokens({_id}): the value of an OK reply is the pair         *)
(* <<access.token, refresh.token>>                                         *)
generateAuthTokens(store, userId, up, clock) ==
    IF userId = NoId
    THEN [tokens |-> store,
          reply |-> ApiError("generateAuthTokens", userId, "refresh",
                             "BAD_REQUEST", "User ID not provided")]
    ELSE CreateTokenOrFail(
             store,
             RefreshData(userId, RefreshToken(userId, clock),
                         AddDays(clock, refreshExpirationDays)),
             clock, "generateAuthTokens",
             Ok("generateAuthTokens", userId, "refresh",
                <<AccessToken(userId, clock), RefreshToken(userId, clock)>>),
             up)

(* ---------------- TokenService.deleteToken ---------------- *)
(* tokenId is a string: the string of an ObjectId is the one-part sequence *)
(* of the id; any other string fails the cast to ObjectId, which the catch *)
(* turns into a 500                                                        *)
IsObjectId(tokenId) == Len(tokenId) = 1

(* mutant: the result of findByIdAndDelete is not looked at *)
deleteToken_NoResultCheck(store, tokenId) ==
    IF ~IsObjectId(tokenId)
    THEN [tokens |-> store, reply |-> InternalError("deleteToken", "", "")]
    ELSE [tokens |-> FindByIdAndDelete(store, tokenId[1]),
          reply |-> Ok("deleteToken", "", "", <<>>)]

deleteToken(store, tokenId) ==
    IF ~IsObjectId(tokenId)
    THEN [tokens |-> store, reply |-> InternalError("deleteToken", "", "")]
    ELSE IF FindById(store, tokenId[1]) = NoDoc
    THEN [tokens |-> store,
          reply |-> ApiError("deleteToken", "", "", "NOT_FOUND",
                             "Token not found or already deleted")]
    ELSE [tokens |-> FindByIdAndDelete(store, tokenId[1]),
          reply |-> Ok("deleteToken", "", "", <<>>)]

(* TokenService.updateToken(tokenId, updateData) called on its own *)
updateToken(store, tokenId, updateData, clock) ==
    IF ~IsObjectId(tokenId)
    THEN [tokens |-> store, reply |-> InternalError("updateToken", "", "")]
    ELSE UpdateToken(store, tokenId[1], updateData, clock, "updateToken",
                     "", "", Ok("updateToken", "", "", <<>>))

(* ---------------- the sequential specification ---------------- *)
NoReply == [op |-> "none", userId |-> "", type |-> "", status |-> "",
            message |-> "", value |-> <<>>]
Idle == [pc |-> "idle", op |-> "none", type |-> "", token |-> <<>>,
         doc |-> NoDoc, reply |-> NoReply]

Init ==
    /\ now = 0
    /\ tokens = <<>>
    /\ reply = NoReply
    /\ issuedAt = [k \in Users \X OtpTypes |-> -1]
    /\ calls = [p \in Procs |-> Idle]
    /\ issued = {}
    /\ users = <<>>

Tick ==
    /\ now < MaxTime
    /\ now' = now + 1
    /\ UNCHANGED <<tokens, reply, issuedAt, calls, issued, users>>

GenerateOTP(userId, type, otpToken) ==
    LET r == generateOTP(tokens, userId, type, otpToken, now)
    IN  /\ tokens' = r.tokens
        /\ reply' = r.reply
        /\ issuedAt' = IF r.reply.status = "OK"
                       THEN [issuedAt EXCEPT ![<<userId, type>>] = now]
                       ELSE issuedAt
        /\ UNCHANGED <<now, calls, issued, users>>

VerifyOTP(token, type, id) ==
    LET r == verifyOtp(tokens, token, type, id, now)
    IN  /\ tokens' = r.tokens
        /\ reply' = r.reply
        /\ UNCHANGED <<now, issuedAt, calls, issued, users>>

Next ==
    \/ Tick
    \/ \E userId \in UserIds \cup {NoId}, type \in OtpTypes, otpToken \in Codes :
          GenerateOTP(userId, type, otpToken)
    \/ \E id \in UserIds \cup {NoId}, type \in OtpTypes, token \in Codes :
          VerifyOTP(token, type, id)

Spec == Init /\ [][Next]_vars

(* ---------------- interleaved requests ----------------                  *)
(* A call suspends at each store call (await) and nowhere else. The user   *)
(* of every call is "u1".                                                  *)
ConcTick ==
    /\ now < ConcMaxTime
    /\ now' = now + 1
    /\ UNCHANGED <<tokens, reply, issuedAt, calls, issued, users>>

Free(p) == calls[p].pc \in {"idle", "done"}

(* generateOTP up to the return of its findOne (lines 823-842) *)
StartGenerate(p, type) ==
    /\ Free(p)
    /\ calls' = [calls EXCEPT ![p] =
                   [pc |-> "limit", op |-> "generateOTP", type |-> type,
                    token |-> <<>>, doc |-> FindOne(tokens, "u1", type, "otp"),
                    reply |-> NoReply]]
    /\ UNCHANGED <<now, tokens, reply, issuedAt, issued, users>>

(* generateOTP from the return of findOne to its own return (lines 844-921) *)
FinishGenerate(p, otpToken) ==
    /\ calls[p].pc = "limit"
    /\ LET r == OtpLimitStep(tokens, calls[p].doc, "u1", calls[p].type,
                             otpToken, now)
       IN  /\ tokens' = r.tokens
           /\ calls' = [calls EXCEPT ![p].pc = "done", ![p].reply = r.reply,
                                     ![p].token = otpToken]
    /\ UNCHANGED <<now, reply, issuedAt, issued, users>>

(* verifyToken(token, type, "otp", id) up to the return of its findOne     *)
(* (lines 698-710)                                                         *)
StartVerify(p, type, token) ==
    /\ Free(p)
    /\ LET tokenDoc == FindOne(tokens, "u1", type, "otp")
       IN  calls' = [calls EXCEPT ![p] =
                       [pc |-> IF tokenDoc = NoDoc THEN "done" ELSE "consume",
                        op |-> "verifyToken", type |-> type, token |-> token,
                        doc |-> tokenDoc,
                        reply |-> IF tokenDoc = NoDoc
                                  THEN verifyOtp(tokens, token, type, "u1", now).reply
                                  ELSE NoReply]]
    /\ UNCHANGED <<now, tokens, reply, issuedAt, issued, users>>

(* verifyToken from the return of findOne to its own return (lines 712-734) *)
FinishVerify(p) ==
    /\ calls[p].pc = "consume"
    /\ LET r == OtpConsumeStep(tokens, calls[p].doc, calls[p].token,
                               calls[p].type, "u1", now)
       IN  /\ tokens' = r.tokens
           /\ calls' = [calls EXCEPT ![p].pc = "done", ![p].reply = r.reply]
    /\ UNCHANGED <<now, reply, issuedAt, issued, users>>

NextConc ==
    \/ ConcTick
    \/ \E p \in Procs, type \in ConcTypes : StartGenerate(p, type)
    \/ \E p \in Procs, otpToken \in Codes : FinishGenerate(p, otpToken)
    \/ \E p \in Procs, type \in ConcTypes, token \in Codes :
          StartVerify(p, type, token)
    \/ \E p \in Procs : FinishVerify(p)

SpecConc == Init /\ [][NextConc]_vars

(* ---------------- the session specification ----------------             *)
(* Calls of generateAuthTokens, verifyToken (jwt), deleteToken and         *)
(* updateToken, each run to completion. The slot calls[1] keeps the        *)
(* arguments and the outcome of the latest call.                           *)
SessionTypes == {"access", "refresh"}
Slot(op, type, token, r) ==
    [pc |-> "done", op |-> op, type |-> type, token |-> token,
     doc |-> NoDoc, reply |-> r]

SessionTick ==
    /\ now < SessionMaxTime
    /\ now' = now + 1
    /\ UNCHANGED <<tokens, reply, issuedAt, calls, issued, users>>

GenerateAuthTokens(userId, up) ==
    /\ Len(tokens) < MaxSessions
    /\ Cardinality(issued) < 2 * MaxSessions
    /\ LET r == generateAuthTokens(tokens, userId, up, now)
       IN  /\ tokens' = r.tokens
           /\ reply' = r.reply
           /\ calls' = [calls EXCEPT ![1] =
                          Slot("generateAuthTokens", "refresh", <<>>, r.reply)]
           /\ issued' = IF r.reply.status = "OK"
                        THEN issued \cup {r.reply.value[1], r.reply.value[2]}
                        ELSE issued
    /\ UNCHANGED <<now, issuedAt, users>>

VerifyJwt(token, type, id) ==
    /\ LET r == verifyJwt(tokens, token, type, id, now)
       IN  /\ tokens' = r.tokens
           /\ reply' = r.reply
           /\ calls' = [calls EXCEPT ![1] =
                          Slot("verifyToken", type, token, r.reply)]
    /\ UNCHANGED <<now, issuedAt, issued, users>>

DeleteToken(tokenId) ==
    /\ LET r == deleteToken(tokens, tokenId)
       IN  /\ tokens' = r.tokens
           /\ reply' = r.reply
           /\ calls' = [calls EXCEPT ![1] =
                          Slot("deleteToken", "", tokenId, r.reply)]
    /\ UNCHANGED <<now, issuedAt, issued, users>>

UpdateTokenCall(tokenId, updateData) ==
    /\ LET r == updateToken(tokens, tokenId, updateData, now)
       IN  /\ tokens' = r.tokens
           /\ reply' = r.reply
           /\ calls' = [calls EXCEPT ![1] =
                          Slot("updateToken", "", tokenId, r.reply)]
    /\ UNCHANGED <<now, issuedAt, issued, users>>

(* what a caller can present: a token it was handed, or a tampered one *)
Presentable == issued \cup {Tamper(t) : t \in issued}
TokenIds == {<<i>> : i \in 1..MaxSessions}

NextSession ==
    \/ SessionTick
    \/ \E userId \in Users \cup {NoId}, up \in BOOLEAN :
          GenerateAuthTokens(userId, up)
    \/ \E token \in Presentable, type \in SessionTypes :
          \E id \in {token[2], NoId} : VerifyJwt(token, type, id)
    \/ \E tokenId \in TokenIds \cup {t \in issued : t[5] = "refresh"} :
          DeleteToken(tokenId)
    \/ \E tokenId \in TokenIds : UpdateTokenCall(tokenId, [blacklisted |-> TRUE])

SpecSession == Init /\ [][NextSession]_vars

(* ---------------- interleaved requests for two pairs ----------------    *)
(* The calls of SpecConc, made for two types of the same user.             *)
PairTypes == {"resetPassword", "verifyEmail"}
(* each caller keeps to one pair, so every interleaving is of two pairs *)
PairOf(p) == IF p = 1 THEN "resetPassword" ELSE "verifyEmail"

PairTick ==
    /\ now < PairMaxTime
    /\ now' = now + 1
    /\ UNCHANGED <<tokens, reply, issuedAt, calls, issued, users>>

NextPairs ==
    \/ PairTick
    \/ \E p \in Procs : StartGenerate(p, PairOf(p))
    \/ \E p \in Procs, otpToken \in Codes : FinishGenerate(p, otpToken)
    \/ \E p \in Procs, token \in Codes : StartVerify(p, PairOf(p), token)
    \/ \E p \in Procs : FinishVerify(p)

SpecPairs == Init /\ [][NextPairs]_vars

(* ---------------- the User collection ---------------- *)
(* a string that is measured or matched is modelled as the sequence of its *)
(* characters: a password, and an email as local part, "@" and domain      *)
Digits == {"0", "1", "2", "3", "4", "5", "6", "7", "8", "9"}
EmailA == <<"a", "@", "x.io">>
EmailB == <<"b", "@", "x.io">>
NoEmail == <<>>
PwGood == <<"p", "a", "s", "s", "w", "0", "r", "d">>
PwNew == <<"n", "e", "w", "p", "a", "s", "s", "1">>
PwSix == <<"a", "b", "c", "d", "e", "1">>
PwBad == <<"a", "1">>
(* config.adminSecret; no secret given is the empty string *)
AdminSecret == "ADMIN_SECRET"
NoSecret == ""
NoUser == [_id |-> ""]
(* the ObjectIds new documents of the collection get, in order *)
UserObjectIds == <<"u1", "u2", "u3">>

(* validator.isEmail *)
IsEmail(email) ==
    Len(email) = 3 /\ email[1] # "" /\ email[2] = "@" /\ email[3] # ""
(* password.match(/\d/) and password.match(/[a-zA-Z]/) *)
HasDigit(password) == \E i \in 1..Len(password) : password[i] \in Digits
HasLetter(password) == \E i \in 1..Len(password) : password[i] \notin Digits

(* User.findOne({email}) *)
UserByEmail(store, email) ==
    IF \E i \in 1..Len(store) : store[i].email = email
    THEN store[CHOOSE i \in 1..Len(store) :
                  /\ store[i].email = email
                  /\ \A j \in 1..(i - 1) : store[j].email # email]
    ELSE NoUser
(* User.findOne({role}) *)
UserByRole(store, role) ==
    IF \E i \in 1..Len(store) : store[i].role = role
    THEN store[CHOOSE i \in 1..Len(store) :
                  /\ store[i].role = role
                  /\ \A j \in 1..(i - 1) : store[j].role # role]
    ELSE NoUser
(* User.findById(id) *)
UserById(store, id) ==
    IF \E i \in 1..Len(store) : store[i]._id = id
    THEN store[CHOOSE i \in 1..Len(store) : store[i]._id = id]
    ELSE NoUser

(* userSchema.statics.isEmailTaken(email) *)
isEmailTaken(store, email) == UserByEmail(store, email) # NoUser
(* userSchema.methods.isPasswordMatch *)
isPasswordMatch(user, password) == BcryptCompare(password, user.password)

(* new User(userData).save(): schema validation of the plain password,     *)
(* the pre-save hash, the defaults, and the unique index on email. ok is   *)
(* FALSE when save rejects, which it does with an error that is no ApiError *)
UserSave(store, userData) ==
    IF Len(userData.password) < 8 \/ isEmailTaken(store, userData.email)
    THEN [users |-> store, user |-> NoUser, ok |-> FALSE]
    ELSE LET doc == [_id |-> UserObjectIds[Len(store) + 1],
                     email |-> userData.email,
                     password |-> BcryptHash(userData.password),
                     isEmailVerified |-> FALSE,
                     twoFaEnabled |-> FALSE,
                     role |-> IF userData.role = "" THEN "user"
                              ELSE userData.role]
         IN  [users |-> Append(store, doc), user |-> doc, ok |-> TRUE]

(* the pre-findOneAndUpdate hook of the User schema: a password in the     *)
(* update is hashed                                                        *)
UserPreFindOneAndUpdate(update) ==
    [f \in DOMAIN update |->
        IF f = "password" THEN BcryptHash(update[f]) ELSE update[f]]

(* User.findByIdAndUpdate(userId, updateData, {new: true}) *)
UserFindByIdAndUpdate(store, id, update) ==
    [i \in 1..Len(store) |->
        IF store[i]._id = id
        THEN [f \in DOMAIN store[i] |->
                IF f \in DOMAIN update
                THEN UserPreFindOneAndUpdate(update)[f]
                ELSE store[i][f]]
        ELSE store[i]]

(* ---------------- UserService ---------------- *)
EmailTakenError(op) ==
    ApiError(op, "", "", "BAD_REQUEST",
             "An account with this email address already exists")

(* UserService.getUserByEmail: the reply when no user has the email *)
NoUserWithEmail(op) ==
    ApiError(op, "", "", "NOT_FOUND", "No user found with this email")

(* UserService.createUser *)
createUser(store, userData) ==
    IF isEmailTaken(store, userData.email)
    THEN [users |-> store, user |-> NoUser, reply |-> EmailTakenError("register")]
    ELSE LET s == UserSave(store, userData)
         IN  [users |-> s.users, user |-> s.user,
              reply |-> IF s.ok THEN Ok("register", s.user._id, s.user.role, <<>>)
                        ELSE InternalError("register", "", "")]

(* UserService.updateUser *)
updateUser(store, userId, updateData) ==
    IF UserById(store, userId) = NoUser
    THEN [users |-> store,
          reply |-> ApiError("updateUser", userId, "", "NOT_FOUND",
                             "No user found with this ID")]
    ELSE [users |-> UserFindByIdAndUpdate(store, userId, updateData),
          reply |-> Ok("updateUser", userId, "", <<>>)]

(* ---------------- AuthService ---------------- *)
(* register, lines 28-52: the message of the validation that fails, or "" *)
RegisterValidation(userData) ==
    IF userData.email = NoEmail THEN "User Data not provided"
    ELSE IF ~IsEmail(userData.email) THEN "Invalid email format"
    ELSE IF Len(userData.password) < 6
    THEN "Password must be at least 6 characters long"
    ELSE IF ~HasDigit(userData.password) \/ ~HasLetter(userData.password)
    THEN "Password must contain at least one letter and one number"
    ELSE ""

(* register, line 63: the role the secret gives; "" is undefined *)
RoleFor(adminSecret) ==
    IF adminSecret # NoSecret /\ adminSecret = AdminSecret
    THEN "superAdmin" ELSE ""

(* register, lines 67-73 *)
SuperAdminExists(store, role) ==
    role = "superAdmin" /\ UserByRole(store, "superAdmin") # NoUser

(* register, lines 80-88: the session tokens and the two emails. mailed is *)
(* whether the mail transport accepts the messages                         *)
RegisterFinish(tstore, user, up, mailed, clock) ==
    LET t == generateAuthTokens(tstore, user._id, up, clock)
    IN  IF t.reply.status # "OK"
        THEN [tokens |-> t.tokens, minted |-> {},
              reply |-> [t.reply EXCEPT !.op = "register"]]
        ELSE [tokens |-> t.tokens,
              minted |-> {t.reply.value[1], t.reply.value[2]},
              reply |-> IF mailed
                        THEN Ok("register", user._id, user.role, t.reply.value)
                        ELSE InternalError("register", user._id, user.role)]

(* AuthService.register, one call run to its end *)
register(ustore, tstore, userData, adminSecret, up, mailed, clock) ==
    LET role == RoleFor(adminSecret)
        c == createUser(ustore, [userData EXCEPT !.role = role])
        f == RegisterFinish(tstore, c.user, up, mailed, clock)
        Fail(r) == [users |-> ustore, tokens |-> tstore, minted |-> {},
                    reply |-> r]
    IN  IF RegisterValidation(userData) # ""
        THEN Fail(ApiError("register", "", "", "BAD_REQUEST",
                           RegisterValidation(userData)))
        ELSE IF isEmailTaken(ustore, userData.email)
        THEN Fail(EmailTakenError("register"))
        ELSE IF SuperAdminExists(ustore, role)
        THEN Fail(ApiError("register", "", role, "BAD_REQUEST",
                           "A super admin already exists"))
        ELSE IF c.reply.status # "OK"
        THEN Fail(c.reply)
        ELSE [users |-> c.users, tokens |-> f.tokens, minted |-> f.minted,
              reply |-> f.reply]

(* AuthService.verifyOtp: verifyToken is called without the user id *)
AuthVerifyOtp(ustore, tstore, email, token, clock) ==
    LET user == UserByEmail(ustore, email)
    IN  IF user = NoUser
        THEN [tokens |-> tstore, reply |-> NoUserWithEmail("verifyOtp")]
        ELSE verifyOtp(tstore, token, "twoFa", NoId, clock)

(* AuthService.login; otp is <<>> when none is given *)
(* mutant: the second factor is not asked for *)
login_SkipsTwoFa(ustore, tstore, email, password, otp, up, clock) ==
    LET user == UserByEmail(ustore, email)
        Fail(status, message) ==
            [tokens |-> tstore, minted |-> {},
             reply |-> ApiError("login", user._id, "", status, message)]
        t == generateAuthTokens(tstore, user._id, up, clock)
    IN  IF user = NoUser
        THEN [tokens |-> tstore, minted |-> {}, reply |-> NoUserWithEmail("login")]
        ELSE IF ~isPasswordMatch(user, password)
        THEN Fail("UNAUTHORIZED", "Incorrect email or password")
        ELSE IF ~user.isEmailVerified
        THEN Fail("UNAUTHORIZED", "Email not verified")
        ELSE [tokens |-> t.tokens,
              minted |-> IF t.reply.status = "OK"
                         THEN {t.reply.value[1], t.reply.value[2]} ELSE {},
              reply |-> [t.reply EXCEPT !.op = "login"]]

login(ustore, tstore, email, password, otp, up, clock) ==
    LET user == UserByEmail(ustore, email)
        Fail(status, message) ==
            [tokens |-> tstore, minted |-> {},
             reply |-> ApiError("login", user._id, "", status, message)]
        v == AuthVerifyOtp(ustore, tstore, email, otp, clock)
        checked == IF user.twoFaEnabled THEN v.tokens ELSE tstore
        t == generateAuthTokens(checked, user._id, up, clock)
    IN  IF user = NoUser
        THEN [tokens |-> tstore, minted |-> {}, reply |-> NoUserWithEmail("login")]
        ELSE IF ~isPasswordMatch(user, password)
        THEN Fail("UNAUTHORIZED", "Incorrect email or password")
        ELSE IF ~user.isEmailVerified
        THEN Fail("UNAUTHORIZED", "Email not verified")
        ELSE IF user.twoFaEnabled /\ otp = <<>>
        THEN Fail("UNAUTHORIZED", "2FA token is required")
        ELSE IF user.twoFaEnabled /\ v.reply.status # "OK"
        THEN [tokens |-> v.tokens, minted |-> {},
              reply |-> [v.reply EXCEPT !.op = "login", !.userId = user._id]]
        ELSE [tokens |-> t.tokens,
              minted |-> IF t.reply.status = "OK"
                         THEN {t.reply.value[1], t.reply.value[2]} ELSE {},
              reply |-> [t.reply EXCEPT !.op = "login"]]

(* AuthService.resetPassword; AuthService.requestOtp does the same with    *)
(* type twoFa for a user who has twoFaEnabled                              *)
resetPassword(ustore, tstore, email, otpToken, mailed, clock) ==
    LET user == UserByEmail(ustore, email)
        g == generateOTP(tstore, user._id, "resetPassword", otpToken, clock)
    IN  IF user = NoUser
        THEN [tokens |-> tstore, code |-> <<>>,
              reply |-> NoUserWithEmail("resetPassword")]
        ELSE IF g.reply.status # "OK"
        THEN [tokens |-> g.tokens, code |-> <<>>,
              reply |-> [g.reply EXCEPT !.op = "resetPassword"]]
        ELSE [tokens |-> g.tokens, code |-> otpToken,
              reply |-> IF mailed
                        THEN Ok("resetPassword", user._id, "resetPassword",
                                otpToken)
                        ELSE InternalError("resetPassword", user._id,
                                           "resetPassword")]

(* AuthService.requestOtp: the message is sent without being awaited *)
requestOtp(ustore, tstore, email, otpToken, clock) ==
    LET user == UserByEmail(ustore, email)
        g == generateOTP(tstore, user._id, "twoFa", otpToken, clock)
    IN  IF user = NoUser
        THEN [tokens |-> tstore, code |-> <<>>,
              reply |-> NoUserWithEmail("requestOtp")]
        ELSE IF ~user.twoFaEnabled
        THEN [tokens |-> tstore, code |-> <<>>,
              reply |-> ApiError("requestOtp", user._id, "twoFa",
                                 "BAD_REQUEST",
                                 "2FA is not enabled for this user")]
        ELSE [tokens |-> g.tokens,
              code |-> IF g.reply.status = "OK" THEN otpToken ELSE <<>>,
              reply |-> [g.reply EXCEPT !.op = "requestOtp"]]

(* AuthService.updatePassword: verifyToken is called without the user id *)
updatePassword(ustore, tstore, email, token, newPassword, clock) ==
    LET user == UserByEmail(ustore, email)
        v == verifyOtp(tstore, token, "resetPassword", NoId, clock)
        u == updateUser(ustore, user._id, [password |-> newPassword])
        Fail(r) == [users |-> ustore, tokens |-> tstore, reply |-> r]
    IN  IF Len(newPassword) < 6
        THEN Fail(ApiError("updatePassword", "", "", "BAD_REQUEST",
                           "Password must be at least 6 characters long"))
        ELSE IF ~HasDigit(newPassword) \/ ~HasLetter(newPassword)
        THEN Fail(ApiError("updatePassword", "", "", "BAD_REQUEST",
                  "Password must contain at least one letter and one number"))
        ELSE IF user = NoUser
        THEN Fail(NoUserWithEmail("updatePassword"))
        ELSE IF v.reply.status # "OK"
        THEN [users |-> ustore, tokens |-> v.tokens,
              reply |-> [v.reply EXCEPT !.op = "updatePassword",
                                        !.userId = user._id]]
        ELSE [users |-> u.users, tokens |-> v.tokens,
              reply |-> [u.reply EXCEPT !.op = "updatePassword"]]

(* the refresh records of a collection *)
RefreshRecords(store) == SelectSeq(store, LAMBDA d : d.type = "refresh")

(* ---------------- the login specification ---------------- *)
(* Calls of AuthService and UserService that bear on login, one after the  *)
(* other.                                                                  *)
AuthEmails == {EmailA, EmailB}
(* the code given to login; <<>> is none *)
LoginOtps == {<<>>, <<"111111">>}
NewUserData ==
    [email : {EmailA, <<"nobody">>}, password : {PwGood, PwSix},
     role : {""}]
UserUpdates ==
    {[isEmailVerified |-> TRUE], [twoFaEnabled |-> TRUE],
     [twoFaEnabled |-> FALSE]}

AuthTick ==
    /\ now < AuthMaxTime
    /\ now' = now + 1
    /\ UNCHANGED <<tokens, reply, issuedAt, calls, issued, users>>

Register(userData, adminSecret, up, mailed) ==
    /\ LET r == register(users, tokens, userData, adminSecret, up, mailed, now)
       IN  /\ users' = r.users
           /\ tokens' = r.tokens
           /\ issued' = issued \cup r.minted
           /\ reply' = r.reply
    /\ UNCHANGED <<now, issuedAt, calls>>

Login(email, password, otp, up) ==
    /\ Len(RefreshRecords(tokens)) < AuthMaxSessions
    /\ LET r == login(users, tokens, email, password, otp, up, now)
       IN  /\ tokens' = r.tokens
           /\ issued' = issued \cup r.minted
           /\ reply' = r.reply
    /\ UNCHANGED <<now, issuedAt, calls, users>>

RequestOtp(email, otpToken) ==
    /\ LET r == requestOtp(users, tokens, email, otpToken, now)
       IN  /\ tokens' = r.tokens
           /\ reply' = r.reply
           /\ issuedAt' = IF r.code # <<>>
                          THEN [issuedAt EXCEPT
                                  ![<<UserByEmail(users, email)._id,
                                      "twoFa">>] = now]
                          ELSE issuedAt
    /\ UNCHANGED <<now, calls, issued, users>>

UpdateUser(userId, updateData) ==
    /\ LET r == updateUser(users, userId, updateData)
       IN  /\ users' = r.users
           /\ reply' = r.reply
    /\ UNCHANGED <<now, tokens, issuedAt, calls, issued>>

NextAuth ==
    \/ AuthTick
    \/ \E userData \in NewUserData, up \in BOOLEAN, mailed \in BOOLEAN :
          Register(userData, NoSecret, up, mailed)
    \/ \E email \in AuthEmails, password \in {PwGood, PwNew},
          otp \in LoginOtps, up \in BOOLEAN :
          Login(email, password, otp, up)
    \/ \E email \in AuthEmails, otpToken \in Codes : RequestOtp(email, otpToken)
    \/ \E userId \in {"u1", "u2"}, updateData \in UserUpdates :
          UpdateUser(userId, updateData)

SpecAuth == Init /\ [][NextAuth]_vars

(* ---------------- the password reset specification ---------------- *)
(* Registration, then resetPassword and updatePassword calls, one after    *)
(* the other.                                                             *)
ResetTick ==
    /\ now < ResetMaxTime
    /\ now' = now + 1
    /\ UNCHANGED <<tokens, reply, issuedAt, calls, issued, users>>

ResetPassword(email, otpToken, mailed) ==
    /\ LET r == resetPassword(users, tokens, email, otpToken, mailed, now)
       IN  /\ tokens' = r.tokens
           /\ reply' = r.reply
           /\ issuedAt' = IF r.code # <<>>
                          THEN [issuedAt EXCEPT
                                  ![<<UserByEmail(users, email)._id,
                                      "resetPassword">>] = now]
                          ELSE issuedAt
    /\ UNCHANGED <<now, calls, issued, users>>

UpdatePassword(email, token, newPassword) ==
    /\ LET r == updatePassword(users, tokens, email, token, newPassword, now)
       IN  /\ users' = r.users
           /\ tokens' = r.tokens
           /\ reply' = r.reply
    /\ UNCHANGED <<now, issuedAt, calls, issued>>

NextReset ==
    \/ ResetTick
    \/ \E userData \in NewUserData, up \in BOOLEAN :
          Register(userData, NoSecret, up, TRUE)
    \/ \E email \in AuthEmails, otpToken \in Codes, mailed \in BOOLEAN :
          ResetPassword(email, otpToken, mailed)
    \/ \E email \in AuthEmails, token \in Codes, newPassword \in {PwNew, PwBad} :
          UpdatePassword(email, token, newPassword)

SpecReset == Init /\ [][NextReset]_vars

(* ---------------- interleaved registrations ---------------- *)
(* AuthService.register split at its awaits, two calls in flight.          *)
RegisterData ==
    [email : {EmailA, EmailB}, password : {PwGood, PwBad}, role : {""}]

RegCall(pc, userData, role, user, r) ==
    [pc |-> pc, op |-> "register", type |-> role, token |-> <<>>,
     doc |-> NoDoc, reply |-> r, userData |-> userData, user |-> user]

(* lines 28-52 and the call of User.isEmailTaken of line 55 *)
StartRegister(p, userData, adminSecret) ==
    /\ Free(p)
    /\ calls' = [calls EXCEPT ![p] =
                   IF RegisterValidation(userData) # ""
                   THEN RegCall("done", userData, "", NoUser,
                                ApiError("register", "", "", "BAD_REQUEST",
                                         RegisterValidation(userData)))
                   ELSE RegCall("emailCheck", userData, RoleFor(adminSecret),
                                NoUser, NoReply)]
    /\ UNCHANGED <<now, tokens, reply, issuedAt, issued, users>>

(* the answer of isEmailTaken (lines 55-60) and the branch of line 63 *)
RegEmailCheck(p) ==
    /\ calls[p].pc = "emailCheck"
    /\ LET c == calls[p]
       IN  calls' = [calls EXCEPT ![p] =
                       IF isEmailTaken(users, c.userData.email)
                       THEN RegCall("done", c.userData, c.type, NoUser,
                                    EmailTakenError("register"))
                       ELSE RegCall(IF c.type = "superAdmin" THEN "adminCheck"
                                    ELSE "createCheck",
                                    c.userData, c.type, NoUser, NoReply)]
    /\ UNCHANGED <<now, tokens, reply, issuedAt, issued, users>>

(* the answer of User.findOne({role: "superAdmin"}) (lines 67-73) *)
RegAdminCheck(p) ==
    /\ calls[p].pc = "adminCheck"
    /\ LET c == calls[p]
       IN  calls' = [calls EXCEPT ![p] =
                       IF SuperAdminExists(users, c.type)
                       THEN RegCall("done", c.userData, c.type, NoUser,
                                    ApiError("register", "", c.type,
                                             "BAD_REQUEST",
                                             "A super admin already exists"))
                       ELSE RegCall("createCheck", c.userData, c.type, NoUser,
                                    NoReply)]
    /\ UNCHANGED <<now, tokens, reply, issuedAt, issued, users>>

(* createUser up to the answer of its isEmailTaken (user.service 89-95) *)
RegCreateCheck(p) ==
    /\ calls[p].pc = "createCheck"
    /\ LET c == calls[p]
       IN  calls' = [calls EXCEPT ![p] =
                       IF isEmailTaken(users, c.userData.email)
                       THEN RegCall("done", c.userData, c.type, NoUser,
                                    EmailTakenError("register"))
                       ELSE RegCall("save", c.userData, c.type, NoUser,
                                    NoReply)]
    /\ UNCHANGED <<now, tokens, reply, issuedAt, issued, users>>

(* user.save() (user.service 97-99) *)
RegSave(p) ==
    /\ calls[p].pc = "save"
    /\ LET c == calls[p]
           s == UserSave(users, [c.userData EXCEPT !.role = c.type])
       IN  /\ users' = s.users
           /\ calls' = [calls EXCEPT ![p] =
                          IF s.ok
                          THEN RegCall("tokens", c.userData, c.type, s.user,
                                       NoReply)
                          ELSE RegCall("done", c.userData, c.type, NoUser,
                                       InternalError("register", "", ""))]
    /\ UNCHANGED <<now, tokens, reply, issuedAt, issued>>

(* generateAuthTokens and the emails (lines 80-88) *)
RegFinish(p, up, mailed) ==
    /\ calls[p].pc = "tokens"
    /\ LET c == calls[p]
           f == RegisterFinish(tokens, c.user, up, mailed, now)
       IN  /\ tokens' = f.tokens
           /\ issued' = issued \cup f.minted
           /\ reply' = f.reply
           /\ calls' = [calls EXCEPT ![p] =
                          RegCall("done", c.userData, c.type, c.user, f.reply)]
    /\ UNCHANGED <<now, issuedAt, users>>

NextRegister ==
    \/ \E p \in Procs, userData \in RegisterData,
          adminSecret \in {NoSecret, AdminSecret} :
          StartRegister(p, userData, adminSecret)
    \/ \E p \in Procs : RegEmailCheck(p)
    \/ \E p \in Procs : RegAdminCheck(p)
    \/ \E p \in Procs : RegCreateCheck(p)
    \/ \E p \in Procs : RegSave(p)
    \/ \E p \in Procs, up \in BOOLEAN, mailed \in BOOLEAN :
          RegFinish(p, up, mailed)

SpecRegister == Init /\ [][NextRegister]_vars

(* ======================= the claims ======================= *)
Pairs == Users \X OtpTypes
OtpDoc(userId, type) == FindOne(tokens, userId, type, "otp")
IsRateLimited(r) == r.status = "TOO_MANY_REQUESTS"
IsNotFound(r) == r.status = "NOT_FOUND"
IsExpired(r) == r.status = "UNAUTHORIZED" /\ r.message = "Token has expired"
IsInvalidCode(r) ==
    r.status = "UNAUTHORIZED" /\ r.message = "Invalid or expired OTP token"

(* C1: round trip. The code a successful generateOTP returns is the one    *)
(* whose hash the record of (S,P) holds; verifying the code of the stored  *)
(* record before its expires instant succeeds and deletes the record, and  *)
(* verifying it again straight after fails with NOT_FOUND and changes      *)
(* nothing.                                                                *)
C1_RoundTrip ==
    /\ (reply.op = "generateOTP" /\ reply.status = "OK") =>
           LET d == OtpDoc(reply.userId, reply.type)
           IN  d # NoDoc /\ d.token = BcryptHash(reply.value)
    /\ \A k \in Pairs, c \in Codes :
           LET d == OtpDoc(k[1], k[2])
               first == verifyOtp(tokens, c, k[2], k[1], now)
               second == verifyOtp(first.tokens, c, k[2], k[1], now)
           IN  (d # NoDoc /\ d.token = BcryptHash(c) /\ now < d.expires) =>
                  /\ first.reply.status = "OK"
                  /\ Matching(first.tokens, k[1], k[2], "otp") = {}
                  /\ IsNotFound(second.reply)
                  /\ second.tokens = first.tokens

(* C1 witness: a code was issued, then verified successfully, and the      *)
(* record is gone                                                          *)
C1_Witness ==
    /\ reply.op = "verifyToken" /\ reply.status = "OK"
    /\ issuedAt[<<reply.userId, reply.type>>] >= 0
    /\ now > issuedAt[<<reply.userId, reply.type>>]
    /\ OtpDoc(reply.userId, reply.type) = NoDoc
(* ---- helpers of the rate-limit claims ---- *)
Elapsed(since) == now - since
Minutes(m) == m * UnitsPerMinute
(* the code lets the request past its cooldown check *)
PastCooldown(d) == DiffMinutes(now, d.updatedAt) > d.otpCooldownPeriod
Issue(k, c) == generateOTP(tokens, k[1], k[2], c, now)
DocAfter(r, k) == FindOne(r.tokens, k[1], k[2], "otp")

(* C2 as stated: whenever less than the base cooldown has passed since the  *)
(* latest successful generateOTP for (S,P), generateOTP for (S,P) fails     *)
(* with TOO_MANY_REQUESTS.                                                  *)
C2_Original ==
    \A k \in Pairs, c \in Codes :
        (issuedAt[k] >= 0 /\ Elapsed(issuedAt[k]) < Minutes(otpCooldownTime)) =>
            IsRateLimited(Issue(k, c).reply)

(* C2 as amended: the same, provided the record written by that issuance   *)
(* is still stored (no successful verification has consumed it).           *)
C2_CooldownDenies ==
    \A k \in Pairs, c \in Codes :
        (/\ issuedAt[k] >= 0
         /\ Elapsed(issuedAt[k]) < Minutes(otpCooldownTime)
         /\ OtpDoc(k[1], k[2]) # NoDoc) =>
            /\ IsRateLimited(Issue(k, c).reply)
            /\ Issue(k, c).tokens = tokens

(* C2 witness: a request made inside the base cooldown of a stored record  *)
(* has just been denied                                                    *)
C2_Witness ==
    /\ reply.op = "generateOTP" /\ IsRateLimited(reply)
    /\ issuedAt[<<reply.userId, reply.type>>] >= 0
    /\ Elapsed(issuedAt[<<reply.userId, reply.type>>]) < Minutes(otpCooldownTime)
    /\ Elapsed(issuedAt[<<reply.userId, reply.type>>]) > 0
    /\ OtpDoc(reply.userId, reply.type) # NoDoc

(* C3: the cooldown rule denies exactly while the time since updatedAt is  *)
(* strictly less than cooldownMinutes: inside it the request is denied,    *)
(* and a request at or after it, with the budget not exhausted, is allowed *)
(* and increments requestCount (30 s denied, 90 s allowed with count 2).   *)
C3_CooldownBoundary ==
    \A k \in Pairs, c \in Codes :
        LET d == OtpDoc(k[1], k[2])
            r == Issue(k, c)
        IN  d # NoDoc =>
              /\ Elapsed(d.updatedAt) < Minutes(d.otpCooldownPeriod) =>
                    IsRateLimited(r.reply)
              /\ (/\ Elapsed(d.updatedAt) >= Minutes(d.otpCooldownPeriod)
                  /\ d.otpRequestCount < otpMaxRequests
                  /\ Elapsed(d.createdAt) <= Minutes(otpRequestsWindow)) =>
                    /\ r.reply.status = "OK"
                    /\ DocAfter(r, k).otpRequestCount = d.otpRequestCount + 1

(* C4: a record whose requestCount has reached otpMaxRequests, asked again *)
(* outside the cooldown and within otpRequestsWindow of createdAt, is      *)
(* denied and its cooldown becomes the extended value.                     *)
C4_EscalatesWithinWindow ==
    \A k \in Pairs, c \in Codes :
        LET d == OtpDoc(k[1], k[2])
            r == Issue(k, c)
        IN  (/\ d # NoDoc
             /\ d.otpRequestCount >= otpMaxRequests
             /\ PastCooldown(d)
             /\ Elapsed(d.createdAt) <= Minutes(otpRequestsWindow)) =>
               /\ IsRateLimited(r.reply)
               /\ DocAfter(r, k) # NoDoc
               /\ DocAfter(r, k).otpCooldownPeriod = otpExtendedCooldownTime

(* C5: a stored record asked again outside the cooldown, with              *)
(* requestCount < otpMaxRequests or with the window elapsed since          *)
(* createdAt, is allowed: requestCount goes up by one and the cooldown is  *)
(* the base value.                                                         *)
C5_AllowedAgain ==
    \A k \in Pairs, c \in Codes :
        LET d == OtpDoc(k[1], k[2])
            r == Issue(k, c)
        IN  (/\ d # NoDoc
             /\ PastCooldown(d)
             /\ \/ d.otpRequestCount < otpMaxRequests
                \/ Elapsed(d.createdAt) > Minutes(otpRequestsWindow)) =>
               /\ r.reply.status = "OK"
               /\ DocAfter(r, k) # NoDoc
               /\ DocAfter(r, k).otpRequestCount = d.otpRequestCount + 1
               /\ DocAfter(r, k).otpCooldownPeriod = otpCooldownTime
(* ---- verification failures and denials: what they leave alone ---- *)
Verify(k, c) == verifyOtp(tokens, c, k[2], k[1], now)
VerifyFailed(r) == IsNotFound(r) \/ IsExpired(r) \/ IsInvalidCode(r)

(* C9: a verifyToken that fails with NOT_FOUND, expired or invalid code    *)
(* leaves the collection as it was, so the correct code of an unexpired    *)
(* record is still accepted right after the failed attempt.                *)
C9_FailedVerifyKeepsStore ==
    \A k \in Pairs, guess \in Codes, c \in Codes :
        LET d == OtpDoc(k[1], k[2])
            failed == Verify(k, guess)
            retry == verifyOtp(failed.tokens, c, k[2], k[1], now)
        IN  /\ failed.reply.status # "OK" =>
                 /\ VerifyFailed(failed.reply)
                 /\ failed.tokens = tokens
            /\ (/\ failed.reply.status # "OK"
                /\ d # NoDoc /\ d.token = BcryptHash(c)
                /\ ~OtpExpired(d, now)) =>
                 retry.reply.status = "OK"

(* C9 witness: a wrong guess has just been rejected while the record with  *)
(* the other code is still stored and unexpired                            *)
C9_Witness ==
    /\ reply.op = "verifyToken" /\ IsInvalidCode(reply)
    /\ LET d == OtpDoc(reply.userId, reply.type)
       IN  /\ d # NoDoc
           /\ ~OtpExpired(d, now)

SameExcept(d, e, fields) ==
    /\ DOMAIN d = DOMAIN e
    /\ \A f \in DOMAIN d \ fields : d[f] = e[f]

(* C10 as stated: a denied generateOTP changes no field of the record      *)
(* other than the cooldown.                                                *)
C10_Original ==
    \A k \in Pairs, c \in Codes :
        LET r == Issue(k, c)
        IN  IsRateLimited(r.reply) =>
               SameExcept(OtpDoc(k[1], k[2]), DocAfter(r, k),
                          {"otpCooldownPeriod"})

(* C10 as amended: a denied generateOTP leaves token, expires and          *)
(* otpRequestCount (and _id, owner, type, createdAt) of the record as they *)
(* were and leaves every other record alone; it may set the cooldown to    *)
(* the extended value, and that write also moves updatedAt to the instant  *)
(* of the denial.                                                          *)
C10_DenialFrame ==
    \A k \in Pairs, c \in Codes :
        LET r == Issue(k, c)
            d == OtpDoc(k[1], k[2])
            e == DocAfter(r, k)
        IN  IsRateLimited(r.reply) =>
               /\ d # NoDoc /\ e # NoDoc
               /\ SameExcept(d, e, {"otpCooldownPeriod", "updatedAt"})
               /\ Len(r.tokens) = Len(tokens)
               /\ \A i \in 1..Len(tokens) :
                     tokens[i]._id # d._id => r.tokens[i] = tokens[i]
               /\ \/ e = d
                  \/ /\ e.otpCooldownPeriod = otpExtendedCooldownTime
                     /\ e.updatedAt = now

(* C10 witness: a denial has just escalated the cooldown of a record that  *)
(* was issued earlier                                                      *)
C10_Witness ==
    /\ reply.op = "generateOTP" /\ IsRateLimited(reply)
    /\ LET d == OtpDoc(reply.userId, reply.type)
       IN  /\ d # NoDoc
           /\ d.otpCooldownPeriod = otpExtendedCooldownTime
           /\ d.updatedAt = now
           /\ d.updatedAt > issuedAt[<<reply.userId, reply.type>>]
(* ---- interleaved requests ---- *)
Done(p, op) == calls[p].pc = "done" /\ calls[p].op = op
DoneOk(p, op) == Done(p, op) /\ calls[p].reply.status = "OK"

(* C6: the collection never holds two one-time-code records of one         *)
(* (userId, type) pair.                                                    *)
C6_OneRecordPerPair ==
    \A k \in Pairs : Cardinality(Matching(tokens, k[1], k[2], "otp")) <= 1

(* C7: two approved generateOTP calls never both add one to the            *)
(* otpRequestCount that both read from the same record.                    *)
C7_NoLostUpdate ==
    \A p \in Procs : \A q \in Procs \ {p} :
        ~(/\ DoneOk(p, "generateOTP") /\ DoneOk(q, "generateOTP")
          /\ calls[p].type = calls[q].type
          /\ calls[p].doc # NoDoc
          /\ calls[p].doc._id = calls[q].doc._id
          /\ calls[p].doc.otpRequestCount = calls[q].doc.otpRequestCount)

(* C8: of two verifyToken calls whose findOne returned the same record,    *)
(* at most one succeeds; the other, when it presented the right code in    *)
(* time, fails with NOT_FOUND. No record is consumed twice.                *)
C8_ConsumedOnce ==
    \A p \in Procs : \A q \in Procs \ {p} :
        (/\ DoneOk(p, "verifyToken") /\ Done(q, "verifyToken")
         /\ calls[p].doc._id = calls[q].doc._id) =>
            /\ calls[q].reply.status # "OK"
            /\ (calls[q].token = calls[p].token /\ calls[q].doc = calls[p].doc) =>
                  IsNotFound(calls[q].reply) \/ IsExpired(calls[q].reply)

(* C8 witness: both calls read the same record and presented its code; one *)
(* consumed it and the other was told it is already deleted                *)
C8_Witness ==
    \E p \in Procs : \E q \in Procs \ {p} :
        /\ DoneOk(p, "verifyToken") /\ Done(q, "verifyToken")
        /\ calls[p].doc = calls[q].doc
        /\ calls[q].token = calls[p].token
        /\ IsNotFound(calls[q].reply)
        /\ calls[q].reply.message = "Token not found or already deleted"
(* ---- what is stored and what is returned ---- *)
OtpDocs == {i \in 1..Len(tokens) : tokens[i].tokenType = "otp"}

(* C11: every stored one-time-code record holds the bcrypt hash of a code  *)
(* and never a code itself, whether the record was created or updated in   *)
(* place; a successful generateOTP returns the code itself, and the record *)
(* of its pair holds the hash of exactly that code.                        *)
C11_StoredHashed ==
    /\ \A i \in OtpDocs :
          /\ tokens[i].token \notin Codes
          /\ \E c \in Codes : tokens[i].token = BcryptHash(c)
    /\ \A k \in Pairs, c \in Codes :
          LET r == Issue(k, c)
          IN  r.reply.status = "OK" =>
                /\ r.reply.value = c
                /\ DocAfter(r, k) # NoDoc
                /\ DocAfter(r, k).token = BcryptHash(c)
                /\ DocAfter(r, k).token # c

(* C11 witness: a record that was created by one generateOTP has just been *)
(* rewritten in place by another, which returned the plaintext code        *)
C11_Witness ==
    /\ reply.op = "generateOTP" /\ reply.status = "OK"
    /\ reply.value \in Codes
    /\ LET d == OtpDoc(reply.userId, reply.type)
       IN  /\ d # NoDoc
           /\ d.otpRequestCount = 2
           /\ d.createdAt < d.updatedAt
           /\ d.token = BcryptHash(reply.value)
(* ---- session tokens ---- *)
SessionIssue(u, up) == generateAuthTokens(tokens, u, up, now)
IsInternalError(r) == r.status = "INTERNAL_SERVER_ERROR"
IsExpiredToken(r) == r.status = "UNAUTHORIZED" /\ r.message = "Expired token"
RecordsOf(store, token) ==
    {i \in 1..Len(store) : store[i].token = BcryptHash(token)}
IssuedOf(type) == {t \in issued : t[5] = type}
(* the clock reading at which the exp of a token is reached *)
ExpiresAt(token) == (token[4] - StartUnix) \div (60 \div UnitsPerMinute)

(* C12: a successful generateAuthTokens appends exactly one record, of     *)
(* type refresh and tokenType jwt, owned by the user it was called for,    *)
(* and leaves the other records alone; no record of type access is ever    *)
(* stored.                                                                 *)
C12_RefreshPersisted ==
    /\ \A i \in 1..Len(tokens) : tokens[i].type # "access"
    /\ \A u \in UserIds, up \in BOOLEAN :
          LET r == SessionIssue(u, up)
          IN  r.reply.status = "OK" =>
                /\ Len(r.tokens) = Len(tokens) + 1
                /\ SubSeq(r.tokens, 1, Len(tokens)) = tokens
                /\ r.tokens[Len(r.tokens)].type = "refresh"
                /\ r.tokens[Len(r.tokens)].tokenType = "jwt"
                /\ r.tokens[Len(r.tokens)].userId = u

(* C12 witness: generateAuthTokens has just succeeded for the second time  *)
(* for one user, whose two refresh records are both stored                 *)
C12_Witness ==
    /\ reply.op = "generateAuthTokens" /\ reply.status = "OK"
    /\ Cardinality(Matching(tokens, reply.userId, "refresh", "jwt")) = 2
    /\ Cardinality(IssuedOf("refresh")) = 2

(* C13: when the store refuses the refresh record, generateAuthTokens      *)
(* fails with a 500, returns no token and stores nothing; when it returns  *)
(* a pair, a refresh record holding the hash of the returned refresh token *)
(* is stored for the user.                                                 *)
C13_NoPartialMint ==
    /\ \A u \in UserIds :
          LET failed == SessionIssue(u, FALSE)
              r == SessionIssue(u, TRUE)
          IN  /\ IsInternalError(failed.reply)
              /\ failed.reply.value = <<>>
              /\ failed.tokens = tokens
              /\ r.reply.status = "OK" =>
                    \E i \in RecordsOf(r.tokens, r.reply.value[2]) :
                        /\ r.tokens[i].userId = u
                        /\ r.tokens[i].type = "refresh"
    /\ (reply.op = "generateAuthTokens" /\ reply.status = "OK") =>
          RecordsOf(tokens, reply.value[2]) # {}

(* C13 witness: a generateAuthTokens call has just failed on the store and *)
(* nothing of it is stored or handed out                                   *)
C13_Witness ==
    /\ reply.op = "generateAuthTokens" /\ IsInternalError(reply)
    /\ reply.value = <<>>
    /\ Matching(tokens, reply.userId, "refresh", "jwt") = {}
    /\ issued = {}

(* C14: an access token handed out by generateAuthTokens, verified with    *)
(* type access before its exp, is accepted with a payload whose sub is the *)
(* user, and the collection is neither read nor written.                   *)
C14_AccessValidBeforeExpiry ==
    \A t \in IssuedOf("access") :
        LET r == verifyJwt(tokens, t, "access", NoId, now)
        IN  Unix(now) < t[4] =>
              /\ r.reply.status = "OK"
              /\ r.reply.value = JwtPayload(t)
              /\ r.reply.value[1] = t[2]
              /\ r.storeCalls = 0
              /\ r.tokens = tokens

(* C15: a session token verified at exactly the instant of its exp is      *)
(* rejected as expired (401 "Expired token"), for access and for refresh.  *)
C15_ExpiredAtBoundary ==
    \A t \in issued :
        IsExpiredToken(verifyJwt(tokens, t, t[5], t[2], ExpiresAt(t)).reply)

(* C16: a refresh token is accepted only while a record of it is stored;   *)
(* once its user has no refresh record left, verifying it before its exp   *)
(* fails with NOT_FOUND.                                                   *)
C16_RefreshNeedsRecord ==
    \A t \in IssuedOf("refresh") :
        LET r == verifyJwt(tokens, t, "refresh", t[2], now)
        IN  /\ r.reply.status = "OK" => RecordsOf(tokens, t) # {}
            /\ (/\ Matching(tokens, t[2], "refresh", "jwt") = {}
                /\ Unix(now) < t[4]) => IsNotFound(r.reply)
(* C17: no call of verifyToken accepts a refresh token of which a stored   *)
(* record has blacklisted = TRUE, whatever type and user id it is          *)
(* presented with, even when the record is unexpired and the signature is  *)
(* good.                                                                   *)
C17_RevokedNeverAccepted ==
    \A t \in IssuedOf("refresh"), type \in SessionTypes,
       id \in UserIds \cup {NoId} :
        (\E i \in RecordsOf(tokens, t) : tokens[i].blacklisted) =>
            verifyJwt(tokens, t, type, id, now).reply.status # "OK"

(* C17 witness: a refresh token with a good signature, before its exp, has *)
(* just been presented as refresh for its user and turned down while its   *)
(* record is stored with blacklisted = TRUE                                *)
C17_Witness ==
    /\ calls[1].op = "verifyToken" /\ calls[1].type = "refresh"
    /\ calls[1].token \in IssuedOf("refresh")
    /\ reply.userId = calls[1].token[2]
    /\ Unix(now) < calls[1].token[4]
    /\ \E i \in RecordsOf(tokens, calls[1].token) :
          /\ tokens[i].blacklisted
          /\ tokens[i].userId = reply.userId
          /\ now < tokens[i].expires
    /\ reply.status # "OK"

C19_InvalidSignatureKind ==
    \A t \in issued, type \in SessionTypes, id \in UserIds \cup {NoId} :
        LET r == verifyJwt(tokens, Tamper(t), type, id, now)
        IN  /\ r.reply.status # "OK"
            /\ ~IsInternalError(r.reply)
            /\ ~IsExpiredToken(r.reply)
            /\ r.storeCalls = 0
            /\ r.tokens = tokens

(* ---- the first one-time code of a pair ---- *)
OtpPurposes == {"resetPassword", "verifyEmail", "twoFa"}

(* C20: for every user and every type of resetPassword, verifyEmail and    *)
(* twoFa with no record stored for the pair, generateOTP succeeds and      *)
(* adds exactly one record, of that type, with otpRequestCount 1 and the   *)
(* base cooldown.                                                          *)
C20_FirstIssueCreates ==
    \A u \in Users, type \in OtpPurposes, c \in Codes :
        LET r == generateOTP(tokens, u, type, c, now)
            d == FindOne(r.tokens, u, type, "otp")
        IN  FindOne(tokens, u, type, "otp") = NoDoc =>
              /\ r.reply.status = "OK"
              /\ Len(r.tokens) = Len(tokens) + 1
              /\ Cardinality(Matching(r.tokens, u, type, "otp")) = 1
              /\ d.otpRequestCount = 1
              /\ d.otpCooldownPeriod = otpCooldownTime
(* ---- approved requests, deletions, lockout ---- *)
(* the rate-limit block lets the request through *)
Approved(d) == RateLimit(d, now) \in {"pass", "delete"}

(* C21: a generateOTP that the rate-limit block lets through while a       *)
(* record of the pair is stored returns a code and leaves exactly one      *)
(* record of the pair, holding the hash of that code with otpRequestCount  *)
(* one higher; it does not fail with NOT_FOUND and does not remove the     *)
(* record.                                                                 *)
C21_ApprovedUpdatesInPlace ==
    \A k \in Pairs, c \in Codes :
        LET d == OtpDoc(k[1], k[2])
            r == Issue(k, c)
        IN  (d # NoDoc /\ Approved(d)) =>
              /\ r.reply.status = "OK"
              /\ r.reply.value = c
              /\ Cardinality(Matching(r.tokens, k[1], k[2], "otp")) = 1
              /\ DocAfter(r, k).token = BcryptHash(c)
              /\ DocAfter(r, k).otpRequestCount = d.otpRequestCount + 1

(* C22: generateOTP never removes a record: every record stored before    *)
(* the call is stored after it.                                            *)
C22_IssueNeverDeletes ==
    \A k \in Pairs, c \in Codes : Ids(tokens) \subseteq Ids(Issue(k, c).tokens)

(* C24: no permanent lockout. With no request made for longer than the     *)
(* extended cooldown plus the requests window (the collection stays as it  *)
(* is meanwhile), the next generateOTP of the pair returns a code.         *)
C24_NoPermanentLockout ==
    \A k \in Pairs \cap (Users \X TypeEnum), c \in Codes :
        LET later == now + Minutes(otpExtendedCooldownTime + otpRequestsWindow) + 1
        IN  generateOTP(tokens, k[1], k[2], c, later).reply.status = "OK"

(* C25: every stored one-time-code record has                              *)
(* 1 <= otpRequestCount <= otpMaxRequests and a cooldown that is the base  *)
(* or the extended value.                                                  *)
C25_CountAndCooldownRange ==
    \A i \in OtpDocs :
        /\ 1 <= tokens[i].otpRequestCount
        /\ tokens[i].otpRequestCount <= otpMaxRequests
        /\ tokens[i].otpCooldownPeriod \in
              {otpCooldownTime, otpExtendedCooldownTime}

(* C25 witness: a record has used up its budget and had its cooldown       *)
(* escalated                                                               *)
C25_Witness ==
    \E i \in OtpDocs :
        /\ tokens[i].otpRequestCount = otpMaxRequests
        /\ tokens[i].otpCooldownPeriod = otpExtendedCooldownTime
        /\ otpExtendedCooldownTime # otpCooldownTime
        /\ reply.op = "generateOTP" /\ IsRateLimited(reply)

(* C26: a code is rejected as expired at every instant later than          *)
(* otpExpirationMinutes after the generateOTP that issued it, whatever     *)
(* requests were denied in between.                                        *)
C26_DenialKeepsExpiry ==
    \A k \in Pairs, c \in Codes :
        (/\ OtpDoc(k[1], k[2]) # NoDoc
         /\ issuedAt[k] >= 0
         /\ now > issuedAt[k] + Minutes(otpExpirationMinutes)) =>
            IsExpired(Verify(k, c).reply)
(* ---- independence of pairs ---- *)
Own(store, type) == SelectSeq(store, LAMBDA d : d.type = type)
Others(store, type) == SelectSeq(store, LAMBDA d : d.type # type)
(* the records without their ids, which are handed out collection-wide *)
Strip(store) == [i \in 1..Len(store) |-> [store[i] EXCEPT !._id = 0]]
(* what the pending step of call p does to a collection *)
PendingStep(p, store, c) ==
    IF calls[p].pc = "limit"
    THEN OtpLimitStep(store, calls[p].doc, "u1", calls[p].type, c, now)
    ELSE OtpConsumeStep(store, calls[p].doc, calls[p].token, calls[p].type,
                        "u1", now)

(* C23: a generateOTP or verifyToken call for one pair neither reads its   *)
(* decision from nor changes the records of another pair, at any point of  *)
(* any interleaving: its lookup returns what it would return with only the *)
(* records of its own pair stored, and each of its steps answers and       *)
(* writes what it would with only those records stored, leaving the        *)
(* records of every other pair as they are.                                *)
C23_PairsIndependent ==
    /\ \A type \in PairTypes :
          FindOne(tokens, "u1", type, "otp") =
             FindOne(Own(tokens, type), "u1", type, "otp")
    /\ \A p \in Procs, c \in Codes :
          calls[p].pc \in {"limit", "consume"} =>
             LET type == calls[p].type
                 all == PendingStep(p, tokens, c)
                 own == PendingStep(p, Own(tokens, type), c)
             IN  /\ Others(all.tokens, type) = Others(tokens, type)
                 /\ all.reply = own.reply
                 /\ Strip(Own(all.tokens, type)) = Strip(own.tokens)

(* C23 witness: while a call for resetPassword is between its lookup and   *)
(* its write, a generateOTP for verifyEmail has completed, and both pairs  *)
(* have their record                                                       *)
C23_Witness ==
    \E p \in Procs : \E q \in Procs \ {p} :
        /\ calls[p].pc \in {"limit", "consume"}
        /\ calls[p].type = "resetPassword" /\ calls[p].doc # NoDoc
        /\ DoneOk(q, "generateOTP") /\ calls[q].type = "verifyEmail"
        /\ FindOne(tokens, "u1", "verifyEmail", "otp") # NoDoc
        /\ FindOne(tokens, "u1", "resetPassword", "otp") = calls[p].doc
(* C27: with any number of refresh records stored for a user, every issued *)
(* refresh token whose own record is stored and whose exp is not reached   *)
(* is accepted by verifyToken(token, "refresh", "jwt", user) with its      *)
(* payload.                                                                *)
C27_OwnRecordVerifies ==
    \A t \in IssuedOf("refresh") :
        LET r == verifyJwt(tokens, t, "refresh", t[2], now)
        IN  (/\ RecordsOf(tokens, t) # {}
             /\ \A i \in RecordsOf(tokens, t) : now < tokens[i].expires
             /\ Unix(now) < t[4]) =>
                /\ r.reply.status = "OK"
                /\ r.reply.value = JwtPayload(t)
(* ---- AuthService ---- *)
SuperAdmins == {i \in 1..Len(users) : users[i].role = "superAdmin"}

(* C30: whatever the interleaving of register calls, the User collection   *)
(* never holds more than one user of role superAdmin.                      *)
C30_OneSuperAdmin == Cardinality(SuperAdmins) <= 1

(* C28: for a user with twoFaEnabled, login hands out session tokens only  *)
(* when the code it was given is the stored twoFa code of that user and    *)
(* the same call has removed that record; a login that fails hands out     *)
(* nothing and leaves the refresh records as they were.                    *)
C28_TwoFaBeforeSession ==
    \A email \in AuthEmails, password \in {PwGood, PwNew}, otp \in LoginOtps,
       up \in BOOLEAN :
        LET user == UserByEmail(users, email)
            d == FindOne(tokens, user._id, "twoFa", "otp")
            r == login(users, tokens, email, password, otp, up, now)
        IN  (user # NoUser /\ user.twoFaEnabled) =>
              /\ r.reply.status = "OK" =>
                    /\ d # NoDoc /\ BcryptCompare(otp, d.token)
                    /\ FindById(r.tokens, d._id) = NoDoc
              /\ r.reply.status # "OK" =>
                    /\ r.minted = {} /\ r.reply.value = <<>>
                    /\ RefreshRecords(r.tokens) = RefreshRecords(tokens)

(* C28 witness: a verified user with twoFaEnabled has just logged in with   *)
(* the right password and a code, the call was refused, and no refresh     *)
(* record is stored                                                        *)
C28_Witness ==
    /\ reply.op = "login" /\ reply.status = "BAD_REQUEST"
    /\ reply.message = "User ID is not provided"
    /\ UserById(users, reply.userId) # NoUser
    /\ UserById(users, reply.userId).twoFaEnabled
    /\ UserById(users, reply.userId).isEmailVerified
    /\ RefreshRecords(tokens) = <<>>
    /\ issued = {}

(* C29: updatePassword sets the password of the user of the email to the   *)
(* new one exactly when the code it is given is the stored resetPassword   *)
(* code of that user and that code has not reached its expires instant;    *)
(* otherwise the User collection is left as it was.                        *)
C29_PasswordChangesIffCode ==
    \A email \in AuthEmails, token \in Codes :
        LET user == UserByEmail(users, email)
            d == FindOne(tokens, user._id, "resetPassword", "otp")
            current == /\ d # NoDoc /\ BcryptCompare(token, d.token)
                       /\ now < d.expires
            r == updatePassword(users, tokens, email, token, PwNew, now)
        IN  user # NoUser =>
              /\ current <=>
                    isPasswordMatch(UserByEmail(r.users, email), PwNew)
              /\ ~current => r.users = users
====
